---- MODULE Spec2Model ----
(***************************************************************************)
(* Model of gprMax/snapshots.py: class Snapshot, which exports a sampled   *)
(* sub-volume of the FDTD field arrays to a VTK ImageData (.vti) file in   *)
(* two phases, prepare_vtk_imagedata (header) and write_vtk_imagedata      *)
(* (three length-prefixed binary blocks and the closing marker).           *)
(*                                                                         *)
(* A file is the sequence of the write() calls that reached it, one token  *)
(* per call.  A written float is the exact rational <<numerator,           *)
(* denominator>> of the averaged samples; float rounding and overflow are  *)
(* outside the model.                                                      *)
(***************************************************************************)
EXTENDS Integers, Sequences, FiniteSets, TLC

\* ------------------------------------------------------------------ bounds
\* Volume coordinates along x are 0..MaxCoord, strides along x -1..MaxStride.
MaxCoord == 4
MaxStride == 3
\* The highest write() call of a phase that an I/O fault may hit.
MaxFault == 2
\* write_vtk_imagedata is called at most MaxWrites times after a prepare.
MaxWrites == 2
\* The largest total number of model runs of one simulation.
MaxRuns == 11

VARIABLES
    snap,            \* the constructor's xs, xf, ys, yf, zs, zf, dx, dy, dz
    floattype,       \* gprMax.constants.floattype: "float32" or "float64"
    modelrun,        \* the driver's current model run number
    numbermodelruns, \* the driver's total number of model runs
    filename,        \* self.filename, <<>> while the attribute is unset
    cells,           \* self.vtk_{x,y,z}{s,f}cells, <<>> while unset
    filehandle,      \* self.filehandle: "none" (unset), "open" or "closed"
    dirs,            \* the directories that exist
    files,           \* path -> sequence of tokens written
    err,             \* the exception the last call raised, "none" if none
    nwrites,         \* successful write_vtk_imagedata calls since the last prepare
    fields,          \* the Ex .. Hz arrays the last write_vtk_imagedata was given
    reads            \* the raw samples the last write_vtk_imagedata indexed

vars == <<snap, floattype, modelrun, numbermodelruns, filename, cells,
          filehandle, dirs, files, err, nwrites, fields, reads>>

\* ----------------------------------------------------------------- helpers
Abs(n) == IF n < 0 THEN -n ELSE n

\* A range that also yields its end when the stride lands on it.
RangeLen_Inclusive(a, b, d) ==
    IF d > 0 THEN (IF b >= a THEN (b - a) \div d + 1 ELSE 0)
    ELSE (IF a >= b THEN (a - b) \div (-d) + 1 ELSE 0)

\* Python's range(a, b, d) for d # 0, as the sequence of its elements.
RangeLen(a, b, d) ==
    IF d > 0 THEN (IF b > a THEN (b - a + d - 1) \div d ELSE 0)
    ELSE (IF a > b THEN (a - b + (-d) - 1) \div (-d) ELSE 0)

Range(a, b, d) == [t \in 1..RangeLen(a, b, d) |-> a + (t - 1) * d]

\* gprMax.utilities.round_value applied to the true division p / q (q # 0):
\* the nearest integer, a tie going to the even neighbour.
round_value(p, q) ==
    LET n == IF q < 0 THEN -p ELSE p
        m == Abs(q)
        fl == n \div m
        r == n - fl * m
    IN  IF 2 * r < m THEN fl
        ELSE IF 2 * r > m THEN fl + 1
        ELSE IF fl % 2 = 0 THEN fl ELSE fl + 1

\* np.dtype(floattype).itemsize and np.dtype(np.uint32).itemsize
itemsize(ft) == IF ft = "float32" THEN 4 ELSE 8
uint32size == 4

\* Snapshot.floatname
floatname(ft) == IF ft = "float32" THEN "Float32" ELSE "Float64"

\* str(n) for n >= 0, as the sequence of its decimal digits.
Digit(d) == <<"0", "1", "2", "3", "4", "5", "6", "7", "8", "9">>[d + 1]

RECURSIVE str(_)
str(n) == IF n < 10 THEN <<Digit(n)>> ELSE str(n \div 10) \o <<Digit(n % 10)>>

\* ------------------------------------------------------------ path naming
\* A directory name suffixed with the total number of runs, not the run's index.
snapshotdir_TotalRuns(run, nruns) ==
    IF nruns = 1 THEN <<"indir", "/", "model", "_snaps">>
    ELSE <<"indir", "/", "model", "_snaps">> \o str(nruns)

\* os.path.join(G.inputdirectory, splitext(G.inputfilename)[0] + '_snaps' [+ str(modelrun)])
snapshotdir(run, nruns) ==
    IF nruns = 1 THEN <<"indir", "/", "model", "_snaps">>
    ELSE <<"indir", "/", "model", "_snaps">> \o str(run)

\* os.path.abspath(os.path.join(snapshotdir, self.basefilename + '.vti'))
vtifile(dir) == dir \o <<"/", "snap", ".vti">>

\* ------------------------------------------------------- prepare: geometry
\* Lines 93-98: the six cell bounds <<xs, xf, ys, yf, zs, zf>> in sampled cells.
CellBounds(s) ==
    << round_value(s.xs, s.dx), round_value(s.xf, s.dx),
       round_value(s.ys, s.dy), round_value(s.yf, s.dy),
       round_value(s.zs, s.dz), round_value(s.zf, s.dz) >>

\* Line 99
vtk_hfield_offset(ft, c) ==
    3 * itemsize(ft) * (c[2] - c[1]) * (c[4] - c[3]) * (c[6] - c[5]) + uint32size

\* Line 100
vtk_current_offset(ft, c) == 2 * vtk_hfield_offset(ft, c)

\* Lines 103-111: the nine write() calls of the header, in order.
HeaderWrites(s, ft, c) ==
    << [kind |-> "xml"],
       [kind |-> "VTKFile", type |-> "ImageData"],
       [kind |-> "ImageData", WholeExtent |-> c, stride |-> <<s.dx, s.dy, s.dz>>],
       [kind |-> "Piece", Extent |-> c],
       [kind |-> "CellData", Vectors |-> <<"E-field", "H-field", "Current">>],
       [kind |-> "DataArray", Name |-> "E-field", type |-> floatname(ft), offset |-> 0],
       [kind |-> "DataArray", Name |-> "H-field", type |-> floatname(ft),
        offset |-> vtk_hfield_offset(ft, c)],
       [kind |-> "DataArray", Name |-> "Current", type |-> floatname(ft),
        offset |-> vtk_current_offset(ft, c)],
       [kind |-> "AppendedData"] >>

\* -------------------------------------------------------- write: the fields
\* The field arrays handed to write_vtk_imagedata: every sample equal to v, or
\* a ramp whose samples differ from array to array and from index to index.
Fields == {[shape |-> "uniform", v |-> 3], [shape |-> "ramp", v |-> 0]}

ArrayNo(a) ==
    CASE a = "Ex" -> 1 [] a = "Ey" -> 2 [] a = "Ez" -> 3
      [] a = "Hx" -> 4 [] a = "Hy" -> 5 [] a = "Hz" -> 6

\* The sample array a holds at [i, j, k].
Sample(f, a, i, j, k) ==
    IF f.shape = "uniform" THEN f.v
    ELSE 1000 * ArrayNo(a) + i + 10 * j + 100 * k

\* E-field samples whose x-component steps along x where it should step along y.
ESamples_XStep(c, i, j, k) ==
    CASE c = 1 -> << <<"Ex", i, j, k>>, <<"Ex", i + 1, j, k>>,
                     <<"Ex", i, j, k + 1>>, <<"Ex", i + 1, j, k + 1>> >>
      [] c = 2 -> << <<"Ey", i, j, k>>, <<"Ey", i + 1, j, k>>,
                     <<"Ey", i, j, k + 1>>, <<"Ey", i + 1, j, k + 1>> >>
      [] c = 3 -> << <<"Ez", i, j, k>>, <<"Ez", i + 1, j, k>>,
                     <<"Ez", i, j + 1, k>>, <<"Ez", i + 1, j + 1, k>> >>

\* Lines 133-135: the samples averaged into component c (1 = x, 2 = y, 3 = z)
\* of the E-field at cell (i, j, k).
ESamples(c, i, j, k) ==
    CASE c = 1 -> << <<"Ex", i, j, k>>, <<"Ex", i, j + 1, k>>,
                     <<"Ex", i, j, k + 1>>, <<"Ex", i, j + 1, k + 1>> >>
      [] c = 2 -> << <<"Ey", i, j, k>>, <<"Ey", i + 1, j, k>>,
                     <<"Ey", i, j, k + 1>>, <<"Ey", i + 1, j, k + 1>> >>
      [] c = 3 -> << <<"Ez", i, j, k>>, <<"Ez", i + 1, j, k>>,
                     <<"Ez", i, j + 1, k>>, <<"Ez", i + 1, j + 1, k>> >>

\* Lines 143-145: the samples averaged into component c of the H-field.
HSamples(c, i, j, k) ==
    CASE c = 1 -> << <<"Hx", i, j, k>>, <<"Hx", i + 1, j, k>> >>
      [] c = 2 -> << <<"Hy", i, j, k>>, <<"Hy", i, j + 1, k>> >>
      [] c = 3 -> << <<"Hz", i, j, k>>, <<"Hz", i, j, k + 1>> >>

RECURSIVE SumSamples(_, _)
SumSamples(f, ss) ==
    IF ss = <<>> THEN 0
    ELSE Sample(f, ss[1][1], ss[1][2], ss[1][3], ss[1][4]) + SumSamples(f, Tail(ss))

\* (a + b + c + d) / 4 and (a + b) / 2 as the exact fraction <<sum, divisor>>.
EValue(f, c, i, j, k) == << SumSamples(f, ESamples(c, i, j, k)), 4 >>
HValue(f, c, i, j, k) == << SumSamples(f, HSamples(c, i, j, k)), 2 >>

\* gprMax.grid.Ix, Iy, Iz with unit lattice spacing: the discrete curl of the
\* two transverse H components around the cell face normal to axis c.
IValue(f, c, i, j, k) ==
    CASE c = 1 -> << (Sample(f, "Hy", i, j, k - 1) - Sample(f, "Hy", i, j, k))
                     + (Sample(f, "Hz", i, j, k) - Sample(f, "Hz", i, j - 1, k)), 1 >>
      [] c = 2 -> << (Sample(f, "Hx", i, j, k) - Sample(f, "Hx", i, j, k - 1))
                     + (Sample(f, "Hz", i - 1, j, k) - Sample(f, "Hz", i, j, k)), 1 >>
      [] c = 3 -> << (Sample(f, "Hx", i, j - 1, k) - Sample(f, "Hx", i, j, k))
                     + (Sample(f, "Hy", i, j, k) - Sample(f, "Hy", i - 1, j, k)), 1 >>

\* -------------------------------------------------------- write: the blocks
\* Line 125
datasize(ft, c) ==
    3 * itemsize(ft) * (c[2] - c[1]) * (c[4] - c[3]) * (c[6] - c[5])

\* Lines 128-130: the cells the nested loops visit, in order of visit
\* (k outermost, j in the middle, i innermost).
LoopCells(s) ==
    LET xr == Range(s.xs, s.xf, s.dx)
        yr == Range(s.ys, s.yf, s.dy)
        zr == Range(s.zs, s.zf, s.dz)
        nx == Len(xr)
        ny == Len(yr)
    IN  [t \in 1..(nx * ny * Len(zr)) |->
            << xr[((t - 1) % nx) + 1],
               yr[(((t - 1) \div nx) % ny) + 1],
               zr[((t - 1) \div (nx * ny)) + 1] >>]

BlockValue(b, f, c, i, j, k) ==
    CASE b = "E-field" -> EValue(f, c, i, j, k)
      [] b = "H-field" -> HValue(f, c, i, j, k)
      [] b = "Current" -> IValue(f, c, i, j, k)

\* One block: pack('I', datasize), then three packed floats per visited cell.
BlockWrites(b, s, ft, c, f) ==
    LET lc == LoopCells(s)
    IN  << [kind |-> "length", block |-> b, value |-> datasize(ft, c),
            bytes |-> uint32size] >>
        \o [n \in 1..(3 * Len(lc)) |->
              LET cell == lc[((n - 1) \div 3) + 1]
                  comp == ((n - 1) % 3) + 1
              IN  [kind |-> "float", block |-> b, cell |-> cell, comp |-> comp,
                   value |-> BlockValue(b, f, comp, cell[1], cell[2], cell[3]),
                   bytes |-> itemsize(ft)]]

\* A payload that writes the H-field block before the E-field block.
PayloadWrites_HFirst(s, ft, c, f) ==
    BlockWrites("H-field", s, ft, c, f)
    \o BlockWrites("E-field", s, ft, c, f)
    \o BlockWrites("Current", s, ft, c, f)
    \o << [kind |-> "close"] >>

\* Lines 127-156: every write() call of write_vtk_imagedata, in order.
PayloadWrites(s, ft, c, f) ==
    BlockWrites("E-field", s, ft, c, f)
    \o BlockWrites("H-field", s, ft, c, f)
    \o BlockWrites("Current", s, ft, c, f)
    \o << [kind |-> "close"] >>

\* The raw E and H samples indexed on lines 133-135 and 143-145 for the
\* float tokens among ws.
SamplesRead(ws) ==
    UNION { IF ws[n].kind # "float" THEN {}
            ELSE IF ws[n].block = "E-field"
                 THEN LET ss == ESamples(ws[n].comp, ws[n].cell[1], ws[n].cell[2], ws[n].cell[3])
                      IN  {ss[m] : m \in DOMAIN ss}
            ELSE IF ws[n].block = "H-field"
                 THEN LET ss == HSamples(ws[n].comp, ws[n].cell[1], ws[n].cell[2], ws[n].cell[3])
                      IN  {ss[m] : m \in DOMAIN ss}
            ELSE {} : n \in DOMAIN ws }

\* ------------------------------------------------------------------ state
\* One axis of a volume: <<start, end, stride>>.
AxisX == (0..MaxCoord) \X (0..MaxCoord) \X (-1..MaxStride)
\* Along y and z: one cell, two cells, end below start, one cell of stride 2.
AxisYZ == {<<0, 1, 1>>, <<0, 2, 1>>, <<1, 0, 1>>, <<0, 2, 2>>}

\* Snapshot.__init__: the volume and the strides are stored as given.
Snapshot(x, y, z) ==
    [xs |-> x[1], xf |-> x[2], dx |-> x[3],
     ys |-> y[1], yf |-> y[2], dy |-> y[3],
     zs |-> z[1], zf |-> z[2], dz |-> z[3]]

NoFiles == [p \in {} |-> <<>>]
NoFields == [shape |-> "none", v |-> 0]

\* A fresh Snapshot object: no attribute of prepare_vtk_imagedata is set yet.
InitObject ==
    /\ filename = <<>>
    /\ cells = <<>>
    /\ filehandle = "none"
    /\ err = "none"
    /\ nwrites = 0
    /\ fields = NoFields
    /\ reads = {}

Init ==
    /\ \E x \in AxisX, y \in AxisYZ, z \in AxisYZ : snap = Snapshot(x, y, z)
    /\ floattype \in {"float32", "float64"}
    /\ modelrun = 1
    /\ numbermodelruns = 1
    /\ dirs = {}
    /\ files = NoFiles
    /\ InitObject

\* The I/O call of a phase that raises: none, os.mkdir, open, or the n-th write().
NoFault == [at |-> "none", n |-> 0]
Faults ==
    {NoFault, [at |-> "mkdir", n |-> 0], [at |-> "open", n |-> 0]}
    \cup {[at |-> "write", n |-> k] : k \in 1..MaxFault}

\* A header phase that opens the file without truncating it.
open_wb_NoTruncate(fs, path, ws) ==
    [p \in (DOMAIN fs) \cup {path} |->
        IF p # path THEN fs[p]
        ELSE IF path \in DOMAIN fs THEN fs[path] \o ws ELSE ws]

\* open(path, 'wb') and the writes ws: the file is created or truncated.
open_wb(fs, path, ws) ==
    [p \in (DOMAIN fs) \cup {path} |-> IF p = path THEN ws ELSE fs[p]]

\* open(path, 'ab') and the writes ws: the file is created or appended to.
open_ab(fs, path, ws) ==
    [p \in (DOMAIN fs) \cup {path} |->
        IF p # path THEN fs[p]
        ELSE IF path \in DOMAIN fs THEN fs[path] \o ws ELSE ws]

\* What a phase's writes leave in the file, the handle and the exception when
\* the fault hits them: the writes before the faulty one arrive, and close()
\* on the phase's last line is reached only if no write raised.
Written(ws, fault) == IF fault.at = "write" THEN SubSeq(ws, 1, fault.n - 1) ELSE ws
HandleAfter(fault) == IF fault.at = "write" THEN "open" ELSE "closed"
ErrAfter(fault) == IF fault.at = "write" THEN "OSError" ELSE "none"

\* ------------------------------------------------- prepare_vtk_imagedata
Prepare(fault) ==
    LET dir == snapshotdir(modelrun, numbermodelruns)
        path == vtifile(dir)
        c == CellBounds(snap)
        hw == HeaderWrites(snap, floattype, c)
    IN  /\ err = "none"
        /\ nwrites' = 0
        /\ UNCHANGED <<snap, floattype, modelrun, numbermodelruns, fields, reads>>
        /\ IF fault.at = "mkdir"
           THEN \* line 89 raises
                /\ dir \notin dirs
                /\ err' = "OSError"
                /\ UNCHANGED <<filename, cells, filehandle, dirs, files>>
           ELSE /\ dirs' = dirs \cup {dir}
                /\ filename' = path
                /\ IF snap.dx = 0 \/ snap.dy = 0 \/ snap.dz = 0
                   THEN \* lines 93-98 divide by the stride
                        /\ err' = "ZeroDivisionError"
                        /\ UNCHANGED <<cells, filehandle, files>>
                   ELSE /\ cells' = c
                        /\ IF fault.at = "open"
                           THEN \* line 102 raises
                                /\ err' = "OSError"
                                /\ UNCHANGED <<filehandle, files>>
                           ELSE \* open(.., 'wb') truncates; lines 103-112
                                /\ fault.at = "write" => fault.n <= Len(hw)
                                /\ files' = open_wb(files, path, Written(hw, fault))
                                /\ filehandle' = HandleAfter(fault)
                                /\ err' = ErrAfter(fault)

\* --------------------------------------------------- write_vtk_imagedata
Write(f, fault) ==
    /\ err = "none"
    /\ nwrites < MaxWrites
    /\ fault.at # "mkdir"
    /\ UNCHANGED <<snap, floattype, modelrun, numbermodelruns, filename, cells, dirs>>
    /\ IF filename = <<>>
       THEN \* line 123 reads self.filename, which prepare never set
            /\ err' = "AttributeError"
            /\ UNCHANGED <<filehandle, files, nwrites, fields, reads>>
       ELSE IF fault.at = "open"
       THEN \* line 123 raises
            /\ err' = "OSError"
            /\ UNCHANGED <<filehandle, files, nwrites, fields, reads>>
       ELSE IF datasize(floattype, cells) < 0
       THEN \* line 127: pack('I', ..) of a negative number raises
            /\ err' = "struct.error"
            /\ filehandle' = "open"
            /\ fields' = f
            /\ UNCHANGED <<files, nwrites, reads>>
       ELSE LET pw == PayloadWrites(snap, floattype, cells, f)
            IN  /\ fault.at = "write" => fault.n <= Len(pw)
                /\ files' = open_ab(files, filename, Written(pw, fault))
                /\ filehandle' = HandleAfter(fault)
                /\ err' = ErrAfter(fault)
                /\ nwrites' = IF fault = NoFault THEN nwrites + 1 ELSE nwrites
                /\ fields' = f
                /\ reads' = SamplesRead(IF fault.at = "write"
                                        THEN SubSeq(pw, 1, fault.n) ELSE pw)

\* ------------------------------------------------------- the model-run loop
\* The driver starts the next model run once this run's snapshot is written:
\* it builds a new Snapshot object from the same input file; the files and
\* directories of the earlier runs stay.
NewRun ==
    /\ err = "none"
    /\ nwrites = 1
    /\ modelrun < numbermodelruns
    /\ modelrun' = modelrun + 1
    /\ filename' = <<>>
    /\ cells' = <<>>
    /\ filehandle' = "none"
    /\ nwrites' = 0
    /\ fields' = NoFields
    /\ reads' = {}
    /\ UNCHANGED <<snap, floattype, numbermodelruns, dirs, files, err>>

Next ==
    \/ \E fault \in Faults : Prepare(fault)
    \/ \E f \in Fields, fault \in Faults : Write(f, fault)

Spec == Init /\ [][Next]_vars

\* A simulation of 1..MaxRuns model runs over one small volume.
InitRuns ==
    /\ \E xf \in 1..2 : snap = Snapshot(<<0, xf, 1>>, <<0, 1, 1>>, <<0, 1, 1>>)
    /\ floattype = "float32"
    /\ modelrun = 1
    /\ numbermodelruns \in 1..MaxRuns
    /\ dirs = {}
    /\ files = NoFiles
    /\ InitObject

NextRuns ==
    \/ Prepare(NoFault)
    \/ \E f \in {g \in Fields : g.shape = "ramp"} : Write(f, NoFault)
    \/ NewRun

SpecRuns == InitRuns /\ [][NextRuns]_vars

\* ============================================================ properties
\* The file of this snapshot, empty while there is none.
TheFile ==
    IF filename # <<>> /\ filename \in DOMAIN files THEN files[filename] ELSE <<>>

\* prepare_vtk_imagedata and then one write_vtk_imagedata have returned.
WrittenOnce == err = "none" /\ nwrites = 1

IsHeaderKind(k) ==
    k \in {"xml", "VTKFile", "ImageData", "Piece", "CellData", "DataArray", "AppendedData"}

\* The offset the header of F declares for the array called name.
DeclaredOffset(F, name) ==
    LET n == CHOOSE m \in DOMAIN F : F[m].kind = "DataArray" /\ F[m].Name = name
    IN  F[n].offset

InBlock(F, n, b) == F[n].kind = "float" /\ F[n].block = b

\* The bytes of the floats of block b among the first n tokens of F.
RECURSIVE BlockBytes(_, _, _)
BlockBytes(F, b, n) ==
    IF n = 0 THEN 0
    ELSE (IF InBlock(F, n, b) THEN F[n].bytes ELSE 0) + BlockBytes(F, b, n - 1)

\* The value of the length prefix of block b of F.
Prefix(F, b) ==
    LET n == CHOOSE m \in DOMAIN F : F[m].kind = "length" /\ F[m].block = b
    IN  F[n].value

cellCount == (cells[2] - cells[1]) * (cells[4] - cells[3]) * (cells[6] - cells[5])

\* C1: whenever cellCount > 0, after prepare and one write the E-field and
\* H-field blocks hold the same number of payload bytes, the declared
\* H-field offset is the E-field block's byte length plus 4, and the declared
\* Current offset is twice the declared H-field offset.
C1_OffsetsMatchPayload ==
    (WrittenOnce /\ cellCount > 0) =>
        LET F == TheFile
            e == BlockBytes(F, "E-field", Len(F))
            h == BlockBytes(F, "H-field", Len(F))
        IN  /\ e = h
            /\ DeclaredOffset(F, "H-field") = e + 4
            /\ DeclaredOffset(F, "Current") = 2 * DeclaredOffset(F, "H-field")

\* C2: after prepare and one write, the length prefix of each of the three
\* blocks is 3 x floatSize x cellCount, the value the H-field offset was
\* derived from, and exactly that many bytes (cellCount triples) follow it.
C2_PrefixMatchesPayload ==
    WrittenOnce =>
        LET F == TheFile
        IN  \A b \in {"E-field", "H-field", "Current"} :
                /\ Prefix(F, b) = 3 * itemsize(floattype) * cellCount
                /\ Prefix(F, b) + 4 = DeclaredOffset(F, "H-field")
                /\ BlockBytes(F, b, Len(F)) = Prefix(F, b)
                /\ Cardinality({n \in DOMAIN F : InBlock(F, n, b)}) = 3 * cellCount

\* The place of a token in the order the format prescribes: the header, then
\* per block its length prefix and its floats, then the closing marker.
Phase(t) ==
    IF IsHeaderKind(t.kind) THEN 0
    ELSE IF t.kind = "close" THEN 7
    ELSE (CASE t.block = "E-field" -> 1 [] t.block = "H-field" -> 3
            [] t.block = "Current" -> 5)
         + (IF t.kind = "float" THEN 1 ELSE 0)

HeaderKinds ==
    <<"xml", "VTKFile", "ImageData", "Piece", "CellData",
      "DataArray", "DataArray", "DataArray", "AppendedData">>

HoldsHeader(F) ==
    /\ Len(F) >= Len(HeaderKinds)
    /\ \A n \in DOMAIN HeaderKinds : F[n].kind = HeaderKinds[n]

\* C3: after prepare and one write the file is the complete header, then the
\* E-field, H-field and Current blocks in this order, each block's length
\* prefix before its floats, then the closing marker as the last write before
\* the file is closed; and no file ever holds a payload token without
\* holding the complete header before it.
C3_WriteOrder ==
    /\ WrittenOnce =>
        LET F == TheFile
        IN  /\ HoldsHeader(F)
            /\ \A n \in 1..(Len(F) - 1) : Phase(F[n]) <= Phase(F[n + 1])
            /\ \A ph \in {1, 3, 5, 7} :
                   Cardinality({n \in DOMAIN F : Phase(F[n]) = ph}) = 1
            /\ Cardinality({n \in DOMAIN F : Phase(F[n]) = 0}) = Len(HeaderKinds)
            /\ F[Len(F)].kind = "close"
            /\ filehandle = "closed"
    /\ \A p \in DOMAIN files :
           (\E n \in DOMAIN files[p] : ~IsHeaderKind(files[p][n].kind)) =>
               HoldsHeader(files[p])

\* Reached: one write after prepare, with floats in every block.
C3_Witness ==
    /\ WrittenOnce
    /\ \A b \in {"E-field", "H-field", "Current"} :
           \E n \in DOMAIN TheFile : InBlock(TheFile, n, b)

\* A stride is not positive, or an end bound rounds below its start bound.
InvalidConfig ==
    \/ snap.dx <= 0 \/ snap.dy <= 0 \/ snap.dz <= 0
    \/ LET c == CellBounds(snap) IN c[2] < c[1] \/ c[4] < c[3] \/ c[6] < c[5]

\* C4: a snapshot whose end bound is below its start bound on some axis after
\* rounding, or with a non-positive stride, never creates a directory and
\* never opens or writes a file.
C4_InvalidConfigNoIO == InvalidConfig => (dirs = {} /\ DOMAIN files = {})

\* The first token of the section the last write_vtk_imagedata appended.
LastSectionStart(F) ==
    1 + CHOOSE n \in 1..(Len(F) - 1) :
            /\ F[n].kind \in {"close", "AppendedData"}
            /\ \A m \in (n + 1)..(Len(F) - 1) : F[m].kind \notin {"close", "AppendedData"}

FracEq(p, q) == p[1] * q[2] = q[1] * p[2]

S(a, i, j, k) == Sample(fields, a, i, j, k)

\* C5: every E-field float written for cell (i,j,k) is the mean of the four
\* samples the claim names and every H-field float the mean of the two
\* samples it names; a field that is uniformly v yields v in both blocks.
C5_Averages ==
    (err = "none" /\ nwrites >= 1) =>
        LET F == TheFile
        IN  \A n \in LastSectionStart(F)..Len(F) :
                (F[n].kind = "float" /\ F[n].block \in {"E-field", "H-field"}) =>
                    LET i == F[n].cell[1]
                        j == F[n].cell[2]
                        k == F[n].cell[3]
                        c == F[n].comp
                        val == F[n].value
                    IN  /\ (F[n].block = "E-field" /\ c = 1) =>
                              FracEq(val, << S("Ex", i, j, k) + S("Ex", i, j + 1, k)
                                             + S("Ex", i, j, k + 1) + S("Ex", i, j + 1, k + 1), 4 >>)
                        /\ (F[n].block = "E-field" /\ c = 2) =>
                              FracEq(val, << S("Ey", i, j, k) + S("Ey", i + 1, j, k)
                                             + S("Ey", i, j, k + 1) + S("Ey", i + 1, j, k + 1), 4 >>)
                        /\ (F[n].block = "E-field" /\ c = 3) =>
                              FracEq(val, << S("Ez", i, j, k) + S("Ez", i + 1, j, k)
                                             + S("Ez", i, j + 1, k) + S("Ez", i + 1, j + 1, k), 4 >>)
                        /\ (F[n].block = "H-field" /\ c = 1) =>
                              FracEq(val, << S("Hx", i, j, k) + S("Hx", i + 1, j, k), 2 >>)
                        /\ (F[n].block = "H-field" /\ c = 2) =>
                              FracEq(val, << S("Hy", i, j, k) + S("Hy", i, j + 1, k), 2 >>)
                        /\ (F[n].block = "H-field" /\ c = 3) =>
                              FracEq(val, << S("Hz", i, j, k) + S("Hz", i, j, k + 1), 2 >>)
                        /\ fields.shape = "uniform" => FracEq(val, << fields.v, 1 >>)

\* Reached: a ramp field written, with E-field and H-field floats in the file.
C5_Witness ==
    /\ err = "none" /\ nwrites >= 1 /\ fields.shape = "ramp"
    /\ \A b \in {"E-field", "H-field"} : \E n \in DOMAIN TheFile : InBlock(TheFile, n, b)

BaseDir == <<"indir", "/", "model", "_snaps">>

\* The directory of a .vti path: the path without "/", the base name and ".vti".
DirOf(path) == SubSeq(path, 1, Len(path) - 3)

DigitVal(ch) == CHOOSE d \in 0..9 : Digit(d) = ch

RECURSIVE ParseInt(_)
ParseInt(ds) ==
    IF ds = <<>> THEN 0
    ELSE 10 * ParseInt(SubSeq(ds, 1, Len(ds) - 1)) + DigitVal(ds[Len(ds)])

\* C6: the snapshot directory is <inputDirectory>/<inputBaseName>_snaps with
\* no suffix when there is one model run in total; with several runs a run of
\* index >= 2 gets its own index appended with no separator; and the runs of
\* one simulation never share a directory.
C6_DirectoryNaming ==
    /\ filename # <<>> =>
        LET d == DirOf(filename)
            suffix == SubSeq(d, Len(BaseDir) + 1, Len(d))
        IN  /\ SubSeq(d, 1, Len(BaseDir)) = BaseDir
            /\ d \in dirs
            /\ numbermodelruns = 1 => suffix = <<>>
            /\ (numbermodelruns > 1 /\ modelrun >= 2) =>
                   /\ suffix # <<>>
                   /\ \A n \in DOMAIN suffix : \E dg \in 0..9 : suffix[n] = Digit(dg)
                   /\ suffix[1] # "0"
                   /\ ParseInt(suffix) = modelrun
    /\ Cardinality(dirs) = IF filename # <<>> THEN modelrun ELSE modelrun - 1

\* Reached: the tenth run of a simulation has prepared its snapshot.
C6_Witness == filename # <<>> /\ modelrun >= 10 /\ Cardinality(dirs) >= 10

\* C7: between calls the file handle is closed, whatever way the last call ended.
C7_HandleClosedBetweenCalls == filehandle # "open"

IsUInt32(n) == n >= 0 /\ n \div 4 < 1073741824

\* C8: the offsets a written header declares for the H-field and Current
\* arrays are unsigned 32-bit values.
C8_OffsetsAreUInt32 ==
    HoldsHeader(TheFile) =>
        /\ IsUInt32(DeclaredOffset(TheFile, "H-field"))
        /\ IsUInt32(DeclaredOffset(TheFile, "Current"))

Count(F, kinds) == Cardinality({n \in DOMAIN F : F[n].kind \in kinds})

\* C9: after any calls that returned, the file is one header followed by as
\* many sections (three blocks and a closing marker) as write_vtk_imagedata
\* was called since the most recent prepare_vtk_imagedata.
C9_OneHeaderThenSections ==
    (err = "none" /\ filename # <<>>) =>
        LET F == TheFile
        IN  /\ HoldsHeader(F)
            /\ \A n \in DOMAIN F : IsHeaderKind(F[n].kind) <=> n <= Len(HeaderKinds)
            /\ Count(F, {"close"}) = nwrites
            /\ Count(F, {"length"}) = 3 * nwrites
            /\ F[Len(F)].kind = IF nwrites = 0 THEN "AppendedData" ELSE "close"
            /\ \A n \in DOMAIN F :
                   F[n].kind = "close" =>
                       Count(SubSeq(F, 1, n), {"length"}) = 3 * Count(SubSeq(F, 1, n), {"close"})

\* Reached: two sections in the file.
C9_Witness == err = "none" /\ nwrites = 2 /\ Count(TheFile, {"close"}) = 2

ValidConfig ==
    /\ snap.dx > 0 /\ snap.dy > 0 /\ snap.dz > 0
    /\ snap.xs <= snap.xf /\ snap.ys <= snap.yf /\ snap.zs <= snap.zf

\* (k, j, i) of cell p comes before that of cell q: x innermost, z outermost.
VisitedBefore(p, q) ==
    \/ p[3] < q[3]
    \/ p[3] = q[3] /\ p[2] < q[2]
    \/ p[3] = q[3] /\ p[2] = q[2] /\ p[1] < q[1]

\* C10: for positive strides and start <= end on every axis, every raw sample
\* read lies in the closed box [xs..xf] x [ys..yf] x [zs..zf], every visited
\* cell satisfies xs <= i < xf, ys <= j < yf, zs <= k < zf, and the three
\* blocks visit the same cells in the same order, x innermost, z outermost.
C10_ReadsInsideBox ==
    ValidConfig =>
        /\ \A r \in reads :
               /\ snap.xs <= r[2] /\ r[2] <= snap.xf
               /\ snap.ys <= r[3] /\ r[3] <= snap.yf
               /\ snap.zs <= r[4] /\ r[4] <= snap.zf
        /\ \A n \in DOMAIN TheFile :
               TheFile[n].kind = "float" =>
                   /\ snap.xs <= TheFile[n].cell[1] /\ TheFile[n].cell[1] < snap.xf
                   /\ snap.ys <= TheFile[n].cell[2] /\ TheFile[n].cell[2] < snap.yf
                   /\ snap.zs <= TheFile[n].cell[3] /\ TheFile[n].cell[3] < snap.zf
        /\ (err = "none" /\ nwrites >= 1) =>
               LET F == TheFile
                   first == LastSectionStart(F)
                   E == {n \in first..Len(F) : InBlock(F, n, "E-field")}
                   blockLen == 1 + Cardinality(E)
               IN  /\ \A n \in E :
                          /\ InBlock(F, n + blockLen, "H-field")
                          /\ InBlock(F, n + 2 * blockLen, "Current")
                          /\ F[n + blockLen].cell = F[n].cell
                          /\ F[n + 2 * blockLen].cell = F[n].cell
                          /\ (n + 3 \in E) => VisitedBefore(F[n].cell, F[n + 3].cell)
                   /\ \A b \in {"H-field", "Current"} :
                          Cardinality({n \in first..Len(F) : InBlock(F, n, b)}) = Cardinality(E)

\* Reached: a valid volume of several cells written, a read touching the end bound.
C10_Witness ==
    /\ ValidConfig /\ err = "none" /\ nwrites >= 1
    /\ \E r \in reads : r[2] = snap.xf /\ r[3] = snap.yf
    /\ \E n \in DOMAIN TheFile :
           TheFile[n].kind = "float" /\ TheFile[n].cell[1] > snap.xs

====
